---- MODULE Spec2Model ----
(***************************************************************************)
(* A model of dataframe_plotter.py: the argument normalisation and the     *)
(* draw-call sequence of dataframe_plotter, the row filter filter_days,    *)
(* intervals_per_day and average_day_plotter.                              *)
(*                                                                         *)
(* Python values are tagged records.  A list element that is either a      *)
(* string or a list of strings is an Elem: Str(s) or Lst(<<s1, ...>>).     *)
(* Python indices are 0-based; the sequences here are 1-based, so the      *)
(* source's subplot i is index i + 1 of a sequence.                        *)
(***************************************************************************)
EXTENDS Integers, Sequences, FiniteSets, TLC

VARIABLES
    args,             \* the arguments of the call, as passed (never changed)
    caller_df,        \* the caller's table object: its columns
    caller_subplots,  \* the caller's subplots argument object
    caller_secondary, \* the caller's secondary_y argument object
    alias,            \* which locals are the caller's own objects
    df,               \* local df: the columns of the table
    subplots,         \* local subplots: a sequence of Elem
    secondary_y,      \* local secondary_y: a sequence of Elem
    title,            \* local title, ylabel, secondary_ylabel
    ylabel,
    secondary_ylabel,
    nb_plots,
    fig,              \* TRUE once plt.subplots has created the figure
    i,                \* the loop variable of line 175 (number of subplots drawn)
    colors,           \* the local list colors
    draws,            \* the calls issued to the axes, in order
    pc,
    err,
    f_in,             \* filter_days: the arguments [rows, days_of_week, months]
    f_out,            \* filter_days: the rows returned
    f_pc,
    s_in,             \* the series given to intervals_per_day / average_day_plotter
    s_op,             \* which of the two was called
    s_out,            \* what the call returned or raised
    s_calls,          \* the calls average_day_plotter issued to the axes
    s_pc

pvars == <<args, caller_df, caller_subplots, caller_secondary, alias, df,
           subplots, secondary_y, title, ylabel, secondary_ylabel, nb_plots,
           fig, i, colors, draws, pc, err>>

fvars == <<f_in, f_out, f_pc>>

svars == <<s_in, s_op, s_out, s_calls, s_pc>>

vars == <<pvars, fvars, svars>>

(***************************************************************************)
(* Bounds of the inputs.                                                   *)
(***************************************************************************)
MaxSubplots == 2
MaxLabels == 3
MaxRows == 3
MaxSelectors == 2
MaxSamples == 3

(***************************************************************************)
(* Python values.                                                          *)
(***************************************************************************)
Str(s) == [k |-> "str", v |-> <<s>>]
Lst(s) == [k |-> "list", v |-> s]

PyBool(b) == [k |-> "bool", b |-> b, items |-> <<>>]
PyStr(s) == [k |-> "str", b |-> FALSE, items |-> <<Str(s)>>]
PyList(items) == [k |-> "list", b |-> FALSE, items |-> items]

LStr(s) == [k |-> "str", l |-> <<s>>]
LList(l) == [k |-> "list", l |-> l]

NoErr == [type |-> "", line |-> 0]
Raise(type, line) == [type |-> type, line |-> line]

SeqsUpTo(S, lo, hi) == UNION {[1..n -> S] : n \in lo..hi}

\* len(e) > 0 of a string or a list
NonEmpty(e) == IF e.k = "str" THEN e.v[1] # "" ELSE e.v # <<>>

HasColumn(table, c) == \E n \in 1..Len(table) : table[n] = c

(***************************************************************************)
(* dataframe_plotter: helpers.                                             *)
(***************************************************************************)

\* The loop of _str_to_sparse_list: sparse_list = [''] * length, then
\* sparse_list[n] = items[n] for every n in range(len(items)); an index
\* past the end of sparse_list raises IndexError.
SparseFill(items, length, pad) ==
    [ok |-> Len(items) <= length,
     list |-> [n \in 1..length |-> IF n <= Len(items) THEN items[n] ELSE pad]]

\* A string repeated on every subplot instead of placed on the first one.
StrToSparseListBroadcast(x, length) ==
    SparseFill(IF x.k = "str" THEN [n \in 1..length |-> x.l[1]] ELSE x.l,
               length, "")

\* _str_to_sparse_list(string_or_list, length) on a title or label.  A
\* string s is LStr(s), whose field l is <<s>>: the list [string_or_list]
\* of line 148.
StrToSparseList(x, length) ==
    SparseFill(x.l, length, "")

\* list.remove(x): drops the first occurrence of x.
First(s, x) == CHOOSE n \in 1..Len(s) : s[n] = x /\ \A m \in 1..(n - 1) : s[m] # x

Remove(s, x) ==
    LET n == First(s, x)
    IN [m \in 1..(Len(s) - 1) |-> IF m < n THEN s[m] ELSE s[m + 1]]

\* for col2 in secondary_y[0]: subplots[0].remove(col2)
RECURSIVE RemoveAll(_, _)
RemoveAll(e, cols) ==
    IF cols = <<>> THEN [elem |-> e, err |-> NoErr]
    ELSE IF e.k = "str" THEN [elem |-> e, err |-> Raise("AttributeError", 167)]
    ELSE IF ~HasColumn(e.v, Head(cols))
         THEN [elem |-> e, err |-> Raise("ValueError", 167)]
    ELSE RemoveAll(Lst(Remove(e.v, Head(cols))), Tail(cols))

Palette ==
    <<"b", "g", "r", "c", "m", "y", "black", "lime", "orange", "fuchsia",
      "orangered", "steelblue", "darkgoldenrod">>

SecondaryPalette ==
    <<"lime", "orange", "fuchsia", "orangered", "steelblue", "darkgoldenrod">>

\* The palette set once, ahead of the loop, instead of in every iteration.
LoopColorsOnce(prev) == IF prev = <<>> THEN Palette ELSE prev

\* The value of colors at the top of one iteration of the subplot loop
\* (lines 176-177), whatever the list held before.

LoopColors(prev) == Palette

Call(op, k, side, arg, color) ==
    [op |-> op, ax |-> k, side |-> side, arg |-> arg, color |-> color]

DrawOp(ptype) ==
    CASE ptype = "overlay" -> "overlay_days_plotter"
      [] ptype = "average" -> "average_day_plotter"
      [] ptype = "bar" -> "bar"
      [] OTHER -> "plot"

\* Whether the branch of plot_type takes its colour with colors.pop(0).
PopsColor(ptype, side) ==
    \/ ptype \in {"overlay", "average"}
    \/ ptype = "bar" /\ side = "left"

\* The loops over the columns of one axis (lines 188-199 and 209-220).
RECURSIVE DrawColumns(_, _, _, _, _, _)
DrawColumns(cols, cs, ptype, table, k, side) ==
    IF cols = <<>> THEN [calls |-> <<>>, colors |-> cs, err |-> NoErr]
    ELSE IF ptype = "bar" /\ side = "right"
         THEN [calls |-> <<>>, colors |-> cs, err |-> Raise("TypeError", 216)]
    ELSE IF ~HasColumn(table, Head(cols))
         THEN [calls |-> <<>>, colors |-> cs,
               err |-> Raise("KeyError", IF side = "left" THEN 188 ELSE 209)]
    ELSE IF PopsColor(ptype, side) /\ cs = <<>>
         THEN [calls |-> <<>>, colors |-> cs,
               err |-> Raise("IndexError", IF side = "left" THEN 188 ELSE 209)]
    ELSE LET pop == PopsColor(ptype, side)
             rest == DrawColumns(Tail(cols), IF pop THEN Tail(cs) ELSE cs,
                                 ptype, table, k, side)
         IN [calls |-> <<Call(DrawOp(ptype), k, side, Head(cols),
                              IF pop THEN Head(cs) ELSE "")>> \o rest.calls,
             colors |-> rest.colors,
             err |-> rest.err]

(***************************************************************************)
(* dataframe_plotter: lines 124-158.                                       *)
(***************************************************************************)
Normalize ==
    /\ pc = "start"
    /\ LET table == args.df.columns
           sub == IF args.subplots.k = "bool"
                  THEN IF args.subplots.b
                       THEN [n \in 1..Len(table) |-> Lst(<<table[n]>>)]
                       ELSE <<Lst(table)>>
                  ELSE args.subplots.items
           sec == IF args.secondary_y.k = "str"
                  THEN <<Lst(<<args.secondary_y.items[1].v[1]>>)>>
                  ELSE IF args.secondary_y.k = "bool" THEN <<Lst(<<>>)>>
                  ELSE args.secondary_y.items
           n == Len(sub)
           t == StrToSparseList(args.title, n)
           y == StrToSparseList(args.ylabel, n)
           y2 == StrToSparseList(args.secondary_ylabel, n)
       IN /\ df' = table
          /\ alias' = [df |-> args.df.kind = "DataFrame",
                       subplots |-> args.subplots.k = "list",
                       secondary_y |-> args.secondary_y.k = "list"]
          /\ subplots' = PyList(sub)
          /\ secondary_y' = PyList(sec)
          /\ nb_plots' = n
          /\ title' = IF t.ok THEN LList(t.list) ELSE title
          /\ ylabel' = IF t.ok /\ y.ok THEN LList(y.list) ELSE ylabel
          /\ secondary_ylabel' = IF t.ok /\ y.ok /\ y2.ok THEN LList(y2.list)
                                 ELSE secondary_ylabel
          /\ err' = IF ~t.ok THEN Raise("IndexError", 156)
                    ELSE IF ~y.ok THEN Raise("IndexError", 157)
                    ELSE IF ~y2.ok THEN Raise("IndexError", 158)
                    ELSE NoErr
          /\ pc' = IF t.ok /\ y.ok /\ y2.ok THEN "figure" ELSE "error"
    /\ UNCHANGED <<args, caller_df, caller_subplots, caller_secondary, fig, i,
                   colors, draws>>
    /\ UNCHANGED <<fvars, svars>>

(***************************************************************************)
(* dataframe_plotter: lines 160-172.  plt.subplots creates the figure      *)
(* first; the secondary columns are taken out of the primary ones only     *)
(* when there is one subplot.                                              *)
(***************************************************************************)
Flat(items) == [n \in 1..Len(items) |-> items[n].v[1]]

SetItem(x, n, e) == PyList([x.items EXCEPT ![n] = e])

CreateFigure ==
    /\ pc = "figure"
    /\ fig' = TRUE
    /\ i' = 0
    /\ IF nb_plots = 1
       THEN IF secondary_y.items = <<>>
            THEN /\ err' = Raise("IndexError", 164)
                 /\ pc' = "error"
                 /\ UNCHANGED <<secondary_y, subplots, caller_subplots, alias,
                                df, caller_df>>
            ELSE LET wrap == secondary_y.items[1].k = "str"
                     sec == IF wrap THEN PyList(<<Lst(Flat(secondary_y.items))>>)
                            ELSE secondary_y
                     r == RemoveAll(subplots.items[1], sec.items[1].v)
                     bar == r.err = NoErr /\ args.plot_type = "bar"
                 IN /\ secondary_y' = sec
                    /\ alias' = [alias EXCEPT !.secondary_y = @ /\ ~wrap]
                    /\ subplots' = SetItem(subplots, 1, r.elem)
                    /\ caller_subplots' = IF alias.subplots THEN subplots'
                                          ELSE caller_subplots
                    /\ err' = r.err
                    /\ pc' = IF r.err = NoErr THEN "loop" ELSE "error"
                    /\ df' = IF bar THEN Append(df, "x_axis") ELSE df
                    /\ caller_df' = IF bar /\ alias.df THEN df' ELSE caller_df
       ELSE LET r == SparseFill(secondary_y.items, nb_plots, Str(""))
                bar == r.ok /\ args.plot_type = "bar"
            IN /\ secondary_y' = IF r.ok THEN PyList(r.list) ELSE secondary_y
               /\ alias' = [alias EXCEPT !.secondary_y = @ /\ ~r.ok]
               /\ err' = IF r.ok THEN NoErr ELSE Raise("IndexError", 169)
               /\ pc' = IF r.ok THEN "loop" ELSE "error"
               /\ df' = IF bar THEN Append(df, "x_axis") ELSE df
               /\ caller_df' = IF bar /\ alias.df THEN df' ELSE caller_df
               /\ UNCHANGED <<subplots, caller_subplots>>
    /\ UNCHANGED <<args, caller_secondary, title, ylabel, secondary_ylabel,
                   nb_plots, colors, draws>>
    /\ UNCHANGED <<fvars, svars>>

(***************************************************************************)
(* dataframe_plotter: one iteration of the loop of lines 175-230, on       *)
(* subplot k (the source's i + 1).  The calls are issued in order until a  *)
(* statement raises.                                                       *)
(***************************************************************************)
SubplotStep(k) ==
    LET ptype == args.plot_type
        c0 == LoopColors(colors)
        e == subplots.items[k]
        pre == IF ptype = "bar"
               THEN <<Call("set_xticks", k, "left", "", ""),
                      Call("set_xticklabels", k, "left", "", "")>>
               ELSE <<>>
        grid == <<Call("grid", k, "left", "", "")>>
        prim == IF e.k = "str" THEN Lst(e.v) ELSE e
        d1 == DrawColumns(prim.v, c0, ptype, df, k, "left")
        s == secondary_y.items[k]
        sec == IF s.k = "str" THEN Lst(s.v) ELSE s
        d2 == DrawColumns(sec.v, SecondaryPalette, ptype, df, k, "right")
        twin == <<Call("twinx", k, "right", "", "")>>
        tail2 == <<Call("legend", k, "right", "", ""),
                   Call("set_ylabel", k, "right", secondary_ylabel.l[k], ""),
                   Call("grid", k, "right", "", "")>>
        tail == <<Call("set_title", k, "left", title.l[k], ""),
                  Call("set_ylabel", k, "left", ylabel.l[k], ""),
                  Call("legend", k, "left", "", "")>>
    IN IF ptype = "bar" /\ ~NonEmpty(e)
       THEN [calls |-> pre, colors |-> c0, sub |-> e, sec |-> s,
             err |-> Raise("ZeroDivisionError", 181)]
       ELSE IF d1.err # NoErr
       THEN [calls |-> pre \o grid \o d1.calls, colors |-> d1.colors,
             sub |-> prim, sec |-> s, err |-> d1.err]
       ELSE IF ~NonEmpty(s)
       THEN [calls |-> pre \o grid \o d1.calls \o tail, colors |-> d1.colors,
             sub |-> prim, sec |-> s, err |-> NoErr]
       ELSE IF d2.err # NoErr
       THEN [calls |-> pre \o grid \o d1.calls \o twin \o d2.calls,
             colors |-> d2.colors, sub |-> prim, sec |-> sec, err |-> d2.err]
       ELSE [calls |-> pre \o grid \o d1.calls \o twin \o d2.calls \o tail2
                       \o tail,
             colors |-> d2.colors, sub |-> prim, sec |-> sec, err |-> NoErr]

DrawSubplot ==
    /\ pc = "loop"
    /\ i < nb_plots
    /\ LET r == SubplotStep(i + 1)
       IN /\ draws' = draws \o r.calls
          /\ colors' = r.colors
          /\ subplots' = SetItem(subplots, i + 1, r.sub)
          /\ caller_subplots' = IF alias.subplots THEN subplots'
                                ELSE caller_subplots
          /\ secondary_y' = SetItem(secondary_y, i + 1, r.sec)
          /\ caller_secondary' = IF alias.secondary_y THEN secondary_y'
                                 ELSE caller_secondary
          /\ err' = r.err
          /\ pc' = IF r.err = NoErr THEN "loop" ELSE "error"
          /\ i' = IF r.err = NoErr THEN i + 1 ELSE i
    /\ UNCHANGED <<args, caller_df, alias, df, title, ylabel, secondary_ylabel,
                   nb_plots, fig>>
    /\ UNCHANGED <<fvars, svars>>

\* Lines 232-234, after the last subplot.
Finish ==
    /\ pc = "loop"
    /\ i = nb_plots
    /\ draws' = draws \o <<Call("get_xticklabels", nb_plots, "left", "", ""),
                           Call("set_xlabel", nb_plots, "left", args.xlabel, "")>>
    /\ pc' = "done"
    /\ UNCHANGED <<args, caller_df, caller_subplots, caller_secondary, alias,
                   df, subplots, secondary_y, title, ylabel, secondary_ylabel,
                   nb_plots, fig, i, colors, err>>
    /\ UNCHANGED <<fvars, svars>>

(***************************************************************************)
(* The calls of dataframe_plotter that are checked.                        *)
(***************************************************************************)
Tables ==
    {[kind |-> "DataFrame", columns |-> <<"a", "b">>],
     [kind |-> "Series", columns |-> <<"a">>]}

PlotTypes == {"line", "bar", "overlay", "average"}

\* The sublists of a subplots argument; "z" is not a column of any table.
PrimaryElems ==
    {Lst(<<>>), Lst(<<"a">>), Lst(<<"a", "b">>), Lst(<<"z">>), Str("b")}

SecondaryLists == {Lst(<<>>), Lst(<<"a">>), Lst(<<"b">>)}

SecondaryStrings == {Str("a"), Str("b")}

SubplotsArgs ==
    {PyBool(TRUE), PyBool(FALSE)}
        \cup {PyList(l) : l \in SeqsUpTo(PrimaryElems, 0, MaxSubplots)}

SecondaryArgs ==
    {PyBool(FALSE), PyStr("a"), PyStr("b"), PyStr("z")}
        \cup {PyList(l) : l \in SeqsUpTo(SecondaryLists, 0, MaxSubplots + 1)}
        \cup {PyList(l) : l \in SeqsUpTo(SecondaryStrings, 1, MaxSubplots + 1)}

LabelTexts == <<"L1", "L2", "L3", "L4", "L5">>

LabelArgs ==
    {LStr(""), LStr("T")}
        \cup {LList(SubSeq(LabelTexts, 1, n)) : n \in 0..MaxLabels}

LayoutCalls ==
    [df : Tables, subplots : SubplotsArgs, secondary_y : SecondaryArgs,
     plot_type : PlotTypes, title : {LStr("")}, ylabel : {LStr("")},
     secondary_ylabel : {LStr("")}, xlabel : {""}]

\* Tables with as many columns as the palette has colours, and one more.
WideColumns ==
    <<"c1", "c2", "c3", "c4", "c5", "c6", "c7", "c8", "c9", "c10", "c11",
      "c12", "c13", "c14">>

WideCalls ==
    [df : {[kind |-> "DataFrame", columns |-> SubSeq(WideColumns, 1, n)] :
              n \in (Len(Palette) - 1)..(Len(Palette) + 1)},
     subplots : {PyBool(TRUE), PyBool(FALSE)},
     secondary_y : {PyBool(FALSE), PyStr("c2"),
                    PyList(<<Str("c1"), Str("c2"), Str("c3")>>)},
     plot_type : PlotTypes, title : {LStr("")}, ylabel : {LStr("")},
     secondary_ylabel : {LStr("")}, xlabel : {""}]

LabelCalls ==
    [df : {[kind |-> "DataFrame", columns |-> <<"a", "b">>]},
     subplots : {PyBool(TRUE), PyBool(FALSE), PyList(<<Lst(<<"a">>)>>)},
     secondary_y : {PyBool(FALSE), PyStr("b"),
                    PyList(<<Lst(<<>>), Lst(<<"a">>)>>)},
     plot_type : {"line"}, title : LabelArgs, ylabel : LabelArgs,
     secondary_ylabel : LabelArgs, xlabel : {"X"}]

\* No call of filter_days, and none on a series, is in progress.
FilterIdle ==
    /\ f_in = [rows |-> <<>>]
    /\ f_out = <<>>
    /\ f_pc = "idle"

SeriesIdle ==
    /\ s_in = <<>>
    /\ s_op = ""
    /\ s_out = [k |-> "none", n |-> 0, type |-> ""]
    /\ s_calls = <<>>
    /\ s_pc = "idle"

PlotterIdle ==
    /\ args = [df |-> [kind |-> "DataFrame", columns |-> <<>>]]
    /\ caller_df = <<>>
    /\ caller_subplots = PyBool(FALSE)
    /\ caller_secondary = PyBool(FALSE)
    /\ alias = [df |-> TRUE, subplots |-> TRUE, secondary_y |-> TRUE]
    /\ df = <<>>
    /\ subplots = PyBool(FALSE)
    /\ secondary_y = PyBool(FALSE)
    /\ title = LStr("")
    /\ ylabel = LStr("")
    /\ secondary_ylabel = LStr("")
    /\ nb_plots = 0
    /\ fig = FALSE
    /\ i = 0
    /\ colors = <<>>
    /\ draws = <<>>
    /\ pc = "idle"
    /\ err = NoErr

Init ==
    /\ FilterIdle
    /\ SeriesIdle
    /\ args \in LayoutCalls \cup LabelCalls \cup WideCalls
    /\ caller_df = args.df.columns
    /\ caller_subplots = args.subplots
    /\ caller_secondary = args.secondary_y
    /\ alias = [df |-> TRUE, subplots |-> TRUE, secondary_y |-> TRUE]
    /\ df = args.df.columns
    /\ subplots = args.subplots
    /\ secondary_y = args.secondary_y
    /\ title = args.title
    /\ ylabel = args.ylabel
    /\ secondary_ylabel = args.secondary_ylabel
    /\ nb_plots = 0
    /\ fig = FALSE
    /\ i = 0
    /\ colors = <<>>
    /\ draws = <<>>
    /\ pc = "start"
    /\ err = NoErr

Next == Normalize \/ CreateFigure \/ DrawSubplot \/ Finish

Spec == Init /\ [][Next]_vars

(***************************************************************************)
(* filter_days.  A row is its index timestamp; the table of a call is an   *)
(* increasing selection of the days of Calendar, seven consecutive days    *)
(* across a month boundary.  A selector is None, an int, a list of ints or *)
(* a string.                                                               *)
(***************************************************************************)
Calendar ==
    <<[date |-> "2016-01-29", month |-> 1, day |-> "Fri"],
      [date |-> "2016-01-30", month |-> 1, day |-> "Sat"],
      [date |-> "2016-01-31", month |-> 1, day |-> "Sun"],
      [date |-> "2016-02-01", month |-> 2, day |-> "Mon"],
      [date |-> "2016-02-02", month |-> 2, day |-> "Tue"],
      [date |-> "2016-02-03", month |-> 2, day |-> "Wed"],
      [date |-> "2016-02-04", month |-> 2, day |-> "Thu"]>>

None == [k |-> "none", n |-> 0, l |-> <<>>, s |-> ""]
PyInt(n) == [k |-> "int", n |-> n, l |-> <<>>, s |-> ""]
IntList(l) == [k |-> "list", n |-> 0, l |-> l, s |-> ""]
Preset(s) == [k |-> "str", n |-> 0, l |-> <<>>, s |-> s]

\* Python's truth value of a selector: None, 0, [] and '' are false.
Truthy(x) ==
    CASE x.k = "none" -> FALSE
      [] x.k = "int" -> x.n # 0
      [] x.k = "list" -> x.l # <<>>
      [] x.k = "str" -> x.s # ""

\* The numbering of the docstring (line 21): Sunday is 0 and Saturday is 6.
DayOfWeekSundayFirst(ts) ==
    CASE ts.day = "Sun" -> 0 [] ts.day = "Mon" -> 1 [] ts.day = "Tue" -> 2
      [] ts.day = "Wed" -> 3 [] ts.day = "Thu" -> 4 [] ts.day = "Fri" -> 5
      [] ts.day = "Sat" -> 6

\* DatetimeIndex.dayofweek (line 41): Monday is 0 and Sunday is 6.
DayOfWeek(ts) ==
    CASE ts.day = "Mon" -> 0 [] ts.day = "Tue" -> 1 [] ts.day = "Wed" -> 2
      [] ts.day = "Thu" -> 3 [] ts.day = "Fri" -> 4 [] ts.day = "Sat" -> 5
      [] ts.day = "Sun" -> 6

Range(l) == {l[n] : n \in 1..Len(l)}

\* Lines 29-30: the list isin is given for months.
MonthList(months) == IF months.k = "int" THEN <<months.n>> ELSE months.l

\* Lines 35-40: the list isin is given for days_of_week.
DayList(days) ==
    IF days.k = "int" THEN <<days.n>>
    ELSE IF days.k = "str" /\ days.s \in {"weekday", "wkday"}
         THEN <<0, 1, 2, 3, 4>>
    ELSE IF days.k = "str" /\ days.s \in {"weekend", "wkend"} THEN <<5, 6>>
    ELSE days.l

\* Lines 27-44: the rows of the result, in the order of the input.
FilterDays(rows, days_of_week, months) ==
    LET InMonths(ts) == ts.month \in Range(MonthList(months))
        t1 == IF Truthy(months) THEN SelectSeq(rows, InMonths) ELSE rows
        InDays(ts) == DayOfWeek(ts) \in Range(DayList(days_of_week))
        t2 == IF Truthy(days_of_week) THEN SelectSeq(t1, InDays) ELSE t1
    IN t2

CallFilterDays ==
    /\ f_pc = "start"
    /\ f_out' = FilterDays(f_in.rows, f_in.days_of_week, f_in.months)
    /\ f_pc' = "done"
    /\ UNCHANGED <<f_in, pvars, svars>>

Increasing(l) == \A n \in 1..(Len(l) - 1) : l[n] < l[n + 1]

RowChoices ==
    {[n \in 1..Len(l) |-> Calendar[l[n]]] :
        l \in {x \in SeqsUpTo(1..Len(Calendar), 0, MaxRows) : Increasing(x)}}

DaySelectors ==
    {None} \cup {PyInt(d) : d \in 0..6}
        \cup {IntList(l) : l \in {x \in SeqsUpTo(0..6, 1, MaxSelectors) :
                                      Increasing(x)}}
        \cup {IntList(<<1, 2, 3, 4, 5>>)}
        \cup {Preset(p) : p \in {"weekday", "wkday", "weekend", "wkend"}}

MonthSelectors ==
    {None} \cup {PyInt(m) : m \in 1..12}
        \cup {IntList(l) : l \in {x \in SeqsUpTo(1..2, 1, MaxSelectors) :
                                      Increasing(x)}}

InitFilter ==
    /\ PlotterIdle
    /\ SeriesIdle
    /\ f_in \in [rows : RowChoices, days_of_week : DaySelectors,
                 months : MonthSelectors]
    /\ f_out = <<>>
    /\ f_pc = "start"

NextFilter == CallFilterDays

SpecFilter == InitFilter /\ [][NextFilter]_vars

(***************************************************************************)
(* intervals_per_day and average_day_plotter.  A series is a sequence of   *)
(* samples [t, v]: t the index timestamp in whole seconds since midnight   *)
(* of the first day, v the value.                                          *)
(***************************************************************************)
SecondsPerDay == 86400

Returned(n) == [k |-> "return", n |-> n, type |-> ""]
Raised(type) == [k |-> "raise", n |-> 0, type |-> type]

\* Timedelta.seconds: the seconds field of the difference, the days left out.
TimedeltaSeconds(delta) == delta % SecondsPerDay

\* Lines 49-50.
IntervalsPerDay(series) ==
    IF Len(series) < 2 THEN Raised("IndexError")
    ELSE LET res == series[2].t - series[1].t
         IN IF TimedeltaSeconds(res) = 0 THEN Raised("ZeroDivisionError")
            ELSE Returned((3600 * 24) \div TimedeltaSeconds(res))

CallIntervalsPerDay ==
    /\ s_pc = "start"
    /\ s_op' = "intervals_per_day"
    /\ s_out' = IntervalsPerDay(s_in)
    /\ s_pc' = "done"
    /\ UNCHANGED <<s_in, s_calls, pvars, fvars>>

\* datetime_to_hour (lines 10-11) as a fraction num / 3600 of an hour; the
\* timestamps carry no microseconds.
DatetimeToHour(t) ==
    LET hour == (t % SecondsPerDay) \div 3600
        minute == (t % 3600) \div 60
        second == t % 60
    IN hour * 3600 + minute * 60 + second

RECURSIVE Sum(_)
Sum(l) == IF l = <<>> THEN 0 ELSE Head(l) + Sum(Tail(l))

RECURSIVE Ascending(_)
Ascending(S) ==
    IF S = {} THEN <<>>
    ELSE LET m == CHOOSE x \in S : \A y \in S : x <= y
         IN <<m>> \o Ascending(S \ {m})

\* df.groupby('hour').mean() (line 253): one row per hour, ascending, with
\* the mean sum / count of the values at that hour.
GroupByHourMean(series) ==
    LET hours == Ascending({DatetimeToHour(series[n].t) : n \in 1..Len(series)})
        AtHour(h) == LET Is(x) == DatetimeToHour(x.t) = h
                     IN SelectSeq(series, Is)
        Values(h) == [n \in 1..Len(AtHour(h)) |-> AtHour(h)[n].v]
    IN [n \in 1..Len(hours) |->
          [hour |-> hours[n], sum |-> Sum(Values(hours[n])),
           count |-> Len(Values(hours[n]))]]

\* Lines 251-256.
CallAverageDayPlotter ==
    /\ s_pc = "start"
    /\ s_op' = "average_day_plotter"
    /\ s_calls' = <<[op |-> "plot", data |-> GroupByHourMean(s_in)],
                    [op |-> "set_xticks", data |-> <<>>],
                    [op |-> "set_xlim", data |-> <<>>]>>
    /\ s_out' = [k |-> "return", n |-> 0, type |-> "None"]
    /\ s_pc' = "done"
    /\ UNCHANGED <<s_in, pvars, fvars>>

Gaps == {1, 60, 900, 1800, 3600, 7200, 43200, 86399, 86400, 86401, 90000, 172800}

SampleValues == {1, 3}

SeriesChoices ==
    {[n \in 1..Len(vs) |-> [t |-> (n - 1) * g, v |-> vs[n]]] :
        g \in Gaps, vs \in SeqsUpTo(SampleValues, 0, MaxSamples)}

InitSeries ==
    /\ PlotterIdle
    /\ FilterIdle
    /\ s_in \in SeriesChoices
    /\ s_op = ""
    /\ s_out = [k |-> "none", n |-> 0, type |-> ""]
    /\ s_calls = <<>>
    /\ s_pc = "start"

NextSeries == CallIntervalsPerDay \/ CallAverageDayPlotter

SpecSeries == InitSeries /\ [][NextSeries]_vars

(***************************************************************************)
(* Properties.                                                             *)
(***************************************************************************)
Columns(e) == Range(e.v) \ {""}

Started == pc \in {"figure", "loop", "done", "error"}

IsDrawing(c) == c.op \in {"plot", "bar", "overlay_days_plotter", "average_day_plotter"}

DrawnOn(k, side) ==
    {draws[n].arg : n \in {m \in 1..Len(draws) :
        IsDrawing(draws[m]) /\ draws[m].ax = k /\ draws[m].side = side}}

\* C1: in every subplot the columns drawn on the left axis and the columns
\* drawn on the right axis are disjoint, for one subplot and for several: once
\* drawing starts, no subplot lists a secondary column among its primary
\* columns, and no column is drawn on both axes of a subplot.
C1_AxesDisjoint ==
    pc \in {"loop", "done"} =>
        \A k \in 1..nb_plots :
            /\ Columns(subplots.items[k]) \cap Columns(secondary_y.items[k]) = {}
            /\ DrawnOn(k, "left") \cap DrawnOn(k, "right") = {}

\* C3: a call that ends in an error of the plot configuration (a secondary
\* column that cannot be removed, an unknown column, a title, label or
\* secondary list longer than the number of subplots, a secondary axis with
\* plot_type 'bar') has created no figure and issued no draw call.
ConfigError(e) ==
    \/ e.type = "ValueError" /\ e.line = 167
    \/ e.type = "KeyError"
    \/ e.type = "IndexError" /\ e.line \in {156, 157, 158, 169}
    \/ e.type = "TypeError" /\ e.line = 216

C3_ErrorsBeforeRendering ==
    (pc = "error" /\ ConfigError(err)) => (~fig /\ draws = <<>>)

\* C4: after dataframe_plotter returns, the caller's table has the columns it
\* had before the call, and the caller's subplots and secondary_y arguments
\* hold the same sublists with the same elements in the same order.
C4_InputsUnchanged ==
    pc = "done" =>
        /\ Range(caller_df) = Range(args.df.columns)
        /\ caller_subplots = args.subplots
        /\ caller_secondary = args.secondary_y

\* C5: a secondary_y given as a flat list of column names together with more
\* than one subplot makes the call fail; the names are never assigned to
\* the subplots by position and drawn.
FlatSecondary ==
    /\ args.secondary_y.k = "list"
    /\ args.secondary_y.items # <<>>
    /\ \A n \in 1..Len(args.secondary_y.items) : args.secondary_y.items[n].k = "str"

C5_FlatSecondaryRejected ==
    (Started /\ FlatSecondary /\ nb_plots > 1) =>
        /\ pc # "done"
        /\ \A k \in 1..nb_plots : DrawnOn(k, "right") = {}

\* C8 as stated: for every n >= 1 and every title, ylabel and
\* secondary_ylabel given as a string or a list of strings, normalisation
\* yields n entries per label: a string at subplot 0 and '' elsewhere, a
\* list's entries in order and '' for the remaining subplots.
Expected(x, n) ==
    [m \in 1..n |-> IF x.k = "str" THEN (IF m = 1 THEN x.l[1] ELSE "")
                    ELSE IF m <= Len(x.l) THEN x.l[m] ELSE ""]

LabelsNormalized ==
    /\ title = LList(Expected(args.title, nb_plots))
    /\ ylabel = LList(Expected(args.ylabel, nb_plots))
    /\ secondary_ylabel = LList(Expected(args.secondary_ylabel, nb_plots))

C8_AnyLabelNormalized == (Started /\ nb_plots >= 1) => LabelsNormalized

\* C8, amended: the same for a string or a list of at most n strings, and
\* every subplot that has been drawn is titled and labelled with its entry
\* (its right axis, when it has one, with its secondary_ylabel entry); a list
\* of more than n strings makes the call fail before the figure is created.
LabelFits(x, n) == x.k = "str" \/ Len(x.l) <= n

LabelsFit ==
    /\ LabelFits(args.title, nb_plots)
    /\ LabelFits(args.ylabel, nb_plots)
    /\ LabelFits(args.secondary_ylabel, nb_plots)

CallsOf(k, op, side) ==
    LET Is(c) == c.op = op /\ c.ax = k /\ c.side = side
    IN SelectSeq(draws, Is)

SubplotLabelled(k) ==
    /\ CallsOf(k, "set_title", "left")
           = <<Call("set_title", k, "left", Expected(args.title, nb_plots)[k], "")>>
    /\ CallsOf(k, "set_ylabel", "left")
           = <<Call("set_ylabel", k, "left", Expected(args.ylabel, nb_plots)[k], "")>>
    /\ CallsOf(k, "twinx", "right") # <<>> =>
           CallsOf(k, "set_ylabel", "right")
               = <<Call("set_ylabel", k, "right",
                        Expected(args.secondary_ylabel, nb_plots)[k], "")>>

C8_FittingLabelNormalized ==
    (Started /\ nb_plots >= 1) =>
        /\ LabelsFit => (LabelsNormalized /\ \A k \in 1..i : SubplotLabelled(k))
        /\ ~LabelsFit => (pc = "error" /\ err.type = "IndexError" /\ ~fig)

C8_Witness ==
    /\ pc = "done"
    /\ nb_plots = 2
    /\ args.title = LStr("T")
    /\ args.ylabel = LList(<<"L1", "L2">>)
    /\ args.secondary_ylabel = LList(<<"L1">>)
    /\ CallsOf(2, "twinx", "right") # <<>>

\* C10: with plot_type 'overlay', 'average' or 'bar' the j-th primary column
\* of every subplot is drawn in the j-th colour of the 13-colour palette,
\* whatever the earlier subplots and the secondary columns consumed, and no
\* two primary columns of a subplot (of at most 13) share a colour.
PaletteSize == 13

PrimaryDraws(k) ==
    LET Is(c) == IsDrawing(c) /\ c.ax = k /\ c.side = "left"
    IN SelectSeq(draws, Is)

C10_PrimaryColours ==
    args.plot_type \in {"overlay", "average", "bar"} =>
        \A k \in 1..nb_plots :
            LET p == PrimaryDraws(k)
            IN /\ \A j \in 1..Len(p) :
                      /\ j <= PaletteSize
                      /\ p[j].color = Palette[j]
                      /\ p[j].arg = subplots.items[k].v[j]
               /\ \A j1, j2 \in 1..Len(p) : j1 # j2 => p[j1].color # p[j2].color

C10_Witness ==
    /\ pc = "done"
    /\ args.plot_type = "overlay"
    /\ nb_plots = 2
    /\ Len(PrimaryDraws(1)) = 2
    /\ DrawnOn(1, "right") # {}
    /\ Len(PrimaryDraws(2)) = 1

(***************************************************************************)
(* Properties of filter_days.                                              *)
(***************************************************************************)
Absent(x) == x.k = "none"

AsList(x) == IF x.k = "int" THEN <<x.n>> ELSE x.l

\* C2: filter_days keeps a row iff (months is absent or the row's month is
\* among months) and (days_of_week is absent or the row's day of the week is
\* among days_of_week), an int standing for the list of that int, 0
\* included; the rows come back in their original order.
C2_KeepsExactlyTheSelected ==
    (f_pc = "done" /\ f_in.days_of_week.k \in {"none", "int", "list"}) =>
        LET Keep(ts) ==
                /\ Absent(f_in.months)
                       \/ ts.month \in Range(AsList(f_in.months))
                /\ Absent(f_in.days_of_week)
                       \/ DayOfWeek(ts) \in Range(AsList(f_in.days_of_week))
        IN f_out = SelectSeq(f_in.rows, Keep)

\* C7: under the documented numbering (Sunday = 0 ... Saturday = 6) 'weekday'
\* or 'wkday' returns the rows of Monday to Friday, the rows that
\* days_of_week=[1,2,3,4,5] returns, and 'weekend' or 'wkend' the rows of
\* Saturday and Sunday, the rows that days_of_week=[0,6] returns; the two
\* results are disjoint and together hold every row.
C7_PresetsInDocumentedNumbering ==
    LET d == f_in.days_of_week
        m == f_in.months
        OnDays(S) == LET In(ts) == ts.day \in S
                     IN SelectSeq(FilterDays(f_in.rows, None, m), In)
        wkday == FilterDays(f_in.rows, Preset("weekday"), m)
        wkend == FilterDays(f_in.rows, Preset("weekend"), m)
    IN (f_pc = "done" /\ d.k = "str") =>
        /\ d.s \in {"weekday", "wkday"} =>
              /\ f_out = OnDays({"Mon", "Tue", "Wed", "Thu", "Fri"})
              /\ f_out = FilterDays(f_in.rows, IntList(<<1, 2, 3, 4, 5>>), m)
        /\ d.s \in {"weekend", "wkend"} =>
              /\ f_out = OnDays({"Sat", "Sun"})
              /\ f_out = FilterDays(f_in.rows, IntList(<<0, 6>>), m)
        /\ Range(wkday) \cap Range(wkend) = {}
        /\ Range(wkday) \cup Range(wkend) = Range(FilterDays(f_in.rows, None, m))

(***************************************************************************)
(* Properties of intervals_per_day and average_day_plotter.                *)
(***************************************************************************)
\* C6: on a series of at least two samples whose first two timestamps are a
\* positive gap g apart, intervals_per_day returns the integer quotient of
\* 86400 by g in seconds, also for g of one day (1) or longer (0); on fewer
\* than two samples it raises.
C6_QuotientOfTheDay ==
    (s_pc = "done" /\ s_op = "intervals_per_day") =>
        IF Len(s_in) >= 2
        THEN s_out = Returned(86400 \div (s_in[2].t - s_in[1].t))
        ELSE s_out.k = "raise"

\* C9: average_day_plotter on a series of zero samples raises and issues no
\* draw call.
C9_EmptySeriesRejected ==
    (s_pc = "done" /\ s_op = "average_day_plotter" /\ s_in = <<>>) =>
        (s_out.k = "raise" /\ s_calls = <<>>)

====
